---- MODULE Spec2Model ----
(***************************************************************************)
(* Model of meltano's multi-file project configuration store               *)
(* (src/src/meltano/core/project_files.py): the include resolver, the      *)
(* deep merge performed by load(), the origin index and the split-on-write *)
(* performed by update().                                                  *)
(*                                                                         *)
(* Documents are finite functions from string keys to tagged values:       *)
(* a scalar [t |-> "val"], a sequence [t |-> "list"] or a nested mapping   *)
(* [t |-> "map"].  Mapping equality ignores key order, as the equality of  *)
(* the YAML mappings does.  Paths are atomic names; the directory content  *)
(* (which names exist, which are regular files) is fixed, because neither  *)
(* load() nor update() creates or deletes a file.                          *)
(*                                                                         *)
(* What the model fixes: a glob yields each path at most once per pattern; *)
(* the keys of a mapping are visited in one fixed order (KeyOrder,         *)
(* PluginTypes); plugins is a mapping of lists and schedules and           *)
(* environments are lists of named records in every file; every file       *)
(* parses.  A call is one atomic step: the store is single-threaded.       *)
(*                                                                         *)
(* SpecFaults adds update() calls in which a write raises, SpecExternal    *)
(* adds another process replacing the root file between calls.  SpecAdd    *)
(* models add() and add_related() of the add service                       *)
(* (src/src/meltano/core/project_add_service.py) over a fixed catalogue of *)
(* discovered plugins.                                                     *)
(***************************************************************************)
EXTENDS Integers, Sequences, FiniteSets, TLC

VARIABLES
    files,              \* path -> document stored in that regular file
    _meltano,           \* cached root document, or None
    _plugin_file_map,   \* origin index: entity key -> path
    call,               \* the last call made on the store and its outcome
    pre,                \* content of all files when the last call started
    loaded,             \* what the most recent load() resolved and read
    roundTrip,          \* composite handed back to update() right after load()
    nops,               \* number of calls made so far
    patterns,           \* input of a stand-alone include resolution
    resolved,           \* its result
    default_plugin_types,   \* the list add_related's default argument holds
    installed,          \* the plugins added to the project so far
    related             \* the last call made on the add service

vars == <<files, _meltano, _plugin_file_map, call, pre, loaded, roundTrip,
          nops, patterns, resolved, default_plugin_types, installed, related>>

addVars == <<default_plugin_types, installed, related>>

storeVars == <<files, _meltano, _plugin_file_map, call, pre, loaded,
               roundTrip, nops>>

(***************************************************************************)
(* Bounds                                                                  *)
(***************************************************************************)
MaxOps == 3
MaxPatterns == 3

(***************************************************************************)
(* Values and documents                                                    *)
(***************************************************************************)
None == [t |-> "none", v |-> 0]
V(x) == [t |-> "val", v |-> x]
L(s) == [t |-> "list", v |-> s]
M(f) == [t |-> "map", v |-> f]
EmptyMap == [k \in {} |-> 0]

Range(s) == {s[i] : i \in DOMAIN s}

\* dict.get(key, default)
Get(d, k, default) == IF k \in DOMAIN d THEN d[k] ELSE default

\* dict.setdefault(key, default), as the resulting mapping
SetDefault(d, k, default) == IF k \in DOMAIN d THEN d ELSE d @@ (k :> default)

\* d[key] = value
Put(d, k, value) == [x \in DOMAIN d \cup {k} |-> IF x = k THEN value ELSE d[x]]

BLANK_SUBFILE == ("plugins" :> M(EmptyMap)) @@ ("schedules" :> L(<<>>))

(***************************************************************************)
(* The project directory                                                   *)
(***************************************************************************)
RootPath == "meltano.yml"
IncludeFiles == {"a.yml", "b.yml"}
RegularFiles == {RootPath} \cup IncludeFiles
Directories == {"sub"}

Patterns == {"a.yml", "b.yml", "*.yml", "meltano.yml", "*", "s*"}

\* Path.glob(pattern) against the project root: the matches of one pattern,
\* each path once, in the order the expansion yields them.
Glob(pattern) ==
    CASE pattern = "a.yml" -> <<"a.yml">>
      [] pattern = "b.yml" -> <<"b.yml">>
      [] pattern = "*.yml" -> <<"a.yml", "meltano.yml", "b.yml">>
      [] pattern = "meltano.yml" -> <<"meltano.yml">>
      [] pattern = "*" -> <<"b.yml", "meltano.yml", "sub", "a.yml">>
      [] pattern = "s*" -> <<"sub">>
      [] OTHER -> <<>>

(***************************************************************************)
(* Include resolver                                                        *)
(***************************************************************************)
\* file_path.is_file() and file_path.exists()
_is_valid_include_path(path) == path \in RegularFiles

\* list.remove(x): drops the first occurrence only
RECURSIVE ListRemove(_, _)
ListRemove(s, x) ==
    IF s = <<>> THEN <<>>
    ELSE IF Head(s) = x THEN Tail(s)
    ELSE <<Head(s)>> \o ListRemove(Tail(s), x)

\* FromKeys without the deduplication
FromKeysKeepingAll(s) == s

\* list(OrderedDict.fromkeys(s))
RECURSIVE FromKeys(_)
FromKeys(s) ==
    IF s = <<>> THEN <<>>
    ELSE LET front == FromKeys(SubSeq(s, 1, Len(s) - 1))
             last == s[Len(s)]
         IN  IF last \in Range(front) THEN front ELSE Append(front, last)

\* AppendMatches leaving an invalid match out instead of raising
RECURSIVE AppendMatchesSkipping(_, _, _)
AppendMatchesSkipping(acc, matches, i) ==
    IF i > Len(matches) THEN [ok |-> TRUE, paths |-> acc, bad |-> ""]
    ELSE IF ~_is_valid_include_path(matches[i])
         THEN AppendMatchesSkipping(acc, matches, i + 1)
         ELSE AppendMatchesSkipping(Append(acc, matches[i]), matches, i + 1)

\* the inner loop of _resolve_include_paths over the matches of one pattern
RECURSIVE AppendMatches(_, _, _)
AppendMatches(acc, matches, i) ==
    IF i > Len(matches) THEN [ok |-> TRUE, paths |-> acc, bad |-> ""]
    ELSE IF ~_is_valid_include_path(matches[i])
         THEN [ok |-> FALSE, paths |-> <<>>, bad |-> matches[i]]
         ELSE AppendMatches(Append(acc, matches[i]), matches, i + 1)

\* RemoveRoot without the removal
RemoveRootForgotten(include_paths) == include_paths

\* the root is taken out of the list after each pattern
RemoveRoot(include_paths) ==
    IF RootPath \in Range(include_paths)
    THEN ListRemove(include_paths, RootPath)
    ELSE include_paths

\* the outer loop of _resolve_include_paths over the patterns
RECURSIVE ResolveLoop(_, _, _)
ResolveLoop(acc, pats, i) ==
    IF i > Len(pats) THEN [ok |-> TRUE, paths |-> acc, bad |-> ""]
    ELSE LET r == AppendMatches(acc, Glob(pats[i]), 1)
         IN  IF ~r.ok THEN r
             ELSE ResolveLoop(RemoveRoot(r.paths), pats, i + 1)

\* ok: the resolved list; not ok: InvalidIncludePath raised for path bad
_resolve_include_paths(include_path_patterns) ==
    LET r == ResolveLoop(<<>>, include_path_patterns, 1)
    IN  IF r.ok THEN [r EXCEPT !.paths = FromKeys(r.paths)] ELSE r

(***************************************************************************)
(* deep_merge                                                              *)
(***************************************************************************)
\* what a failed attribute lookup (setdefault on a non-mapping, extend on a
\* non-list) leaves in place of the merged value: the merge raises
MergeError == [t |-> "err", v |-> 0]

\* MergeChild with a list of the child replacing the list of the base
RECURSIVE MergeChildOverriding(_, _)
MergeChildOverriding(base, child) ==
    [key \in DOMAIN base \cup DOMAIN child |->
        IF key \notin DOMAIN child THEN base[key]
        ELSE LET value == child[key]
             IN  IF value.t = "map"
                 THEN LET node == Get(base, key, M(EmptyMap))
                      IN  IF node.t = "map"
                          THEN M(MergeChildOverriding(node.v, value.v))
                          ELSE MergeError
                 ELSE value]

\* one iteration of "for child in children", over all keys of the child
RECURSIVE MergeChild(_, _)
MergeChild(base, child) ==
    [key \in DOMAIN base \cup DOMAIN child |->
        IF key \notin DOMAIN child THEN base[key]
        ELSE LET value == child[key]
             IN  IF value.t = "map"
                 THEN LET node == Get(base, key, M(EmptyMap))
                      IN  IF node.t = "map"
                          THEN M(MergeChild(node.v, value.v))
                          ELSE MergeError
                 ELSE IF value.t = "list"
                 THEN LET node == Get(base, key, L(<<>>))
                      IN  IF node.t = "list"
                          THEN L(node.v \o value.v)
                          ELSE MergeError
                 ELSE value]

RECURSIVE deep_merge_from(_, _, _)
deep_merge_from(base, children, i) ==
    IF i > Len(children) THEN base
    ELSE deep_merge_from(MergeChild(base, children[i]), children, i + 1)

deep_merge(parent, children) == deep_merge_from(parent, children, 1)

\* the merge raised somewhere inside the document
RECURSIVE Raised(_)
Raised(d) ==
    \E key \in DOMAIN d :
        \/ d[key].t = "err"
        \/ d[key].t = "map" /\ Raised(d[key].v)

(***************************************************************************)
(* Entities and the origin index                                           *)
(***************************************************************************)
\* the order in which the plugin types of a mapping are visited
PluginTypes == <<"extractors", "loaders">>

PluginsOf(d) == Get(d, "plugins", M(EmptyMap)).v
SchedulesOf(d) == Get(d, "schedules", L(<<>>)).v
EnvironmentsOf(d) == Get(d, "environments", L(<<>>)).v
PluginsOfType(d, plugin_type) == Get(PluginsOf(d), plugin_type, L(<<>>)).v

PluginKey(plugin_type, plugin) == <<"plugins", plugin_type, plugin.name>>
ScheduleKey(schedule) == <<"schedules", schedule.name>>
EnvironmentKey(environment) == <<"environments", environment.name>>

RECURSIVE PluginKeySeq(_, _)
PluginKeySeq(d, i) ==
    IF i > Len(PluginTypes) THEN <<>>
    ELSE LET plugin_type == PluginTypes[i]
             plugins == PluginsOfType(d, plugin_type)
         IN  [j \in DOMAIN plugins |-> PluginKey(plugin_type, plugins[j])]
                 \o PluginKeySeq(d, i + 1)

\* the entity keys a document declares, in the order _index_file visits them
EntityKeySeq(d) ==
    PluginKeySeq(d, 1)
        \o [j \in DOMAIN SchedulesOf(d) |-> ScheduleKey(SchedulesOf(d)[j])]
        \o [j \in DOMAIN EnvironmentsOf(d) |->
               EnvironmentKey(EnvironmentsOf(d)[j])]

EntityKeys(d) == Range(EntityKeySeq(d))

\* _add_to_index letting the later declaration take the key over
_add_to_index_overwriting(index, key, include_path) ==
    [ok |-> TRUE,
     index |-> [k \in DOMAIN index \cup {key} |->
                   IF k = key THEN include_path ELSE index[k]],
     key |-> key, owner |-> include_path, path |-> include_path]

\* _add_to_index recording the root file as the owner of every key
_add_to_index_under_root(index, key, include_path) ==
    IF key \in DOMAIN index
    THEN [ok |-> FALSE, index |-> index, key |-> key, owner |-> index[key],
          path |-> include_path]
    ELSE [ok |-> TRUE, index |-> index @@ (key :> RootPath),
          key |-> key, owner |-> RootPath, path |-> include_path]

\* ok: the index with the key added; not ok: "Duplicate plugin name found"
\* raised for key, which owner already declares, and the index left as it was
_add_to_index(index, key, include_path) ==
    IF key \in DOMAIN index
    THEN [ok |-> FALSE, index |-> index, key |-> key, owner |-> index[key],
          path |-> include_path]
    ELSE [ok |-> TRUE, index |-> index @@ (key :> include_path),
          key |-> key, owner |-> include_path, path |-> include_path]

RECURSIVE IndexKeys(_, _, _, _)
IndexKeys(index, keys, include_path, i) ==
    IF i > Len(keys)
    THEN [ok |-> TRUE, index |-> index, key |-> <<>>, owner |-> "",
          path |-> include_path]
    ELSE LET r == _add_to_index(index, keys[i], include_path)
         IN  IF ~r.ok THEN r
             ELSE IndexKeys(r.index, keys, include_path, i + 1)

_index_file(index, include_file_path, include_file_contents) ==
    IndexKeys(index, EntityKeySeq(include_file_contents),
              include_file_path, 1)

\* the loop of _load_included_files over the resolved paths
RECURSIVE IndexFiles(_, _, _, _)
IndexFiles(index, paths, disk, i) ==
    IF i > Len(paths)
    THEN [ok |-> TRUE, index |-> index, key |-> <<>>, owner |-> "",
          path |-> ""]
    ELSE LET r == _index_file(index, paths[i], disk[paths[i]])
         IN  IF ~r.ok THEN r ELSE IndexFiles(r.index, paths, disk, i + 1)

\* self.meltano.get("include_paths", [])
IncludePatterns(meltano) == Get(meltano, "include_paths", L(<<>>)).v

(***************************************************************************)
(* Splitting a config into one group per file                              *)
(***************************************************************************)
\* file_dicts is kept as the mapping d (path -> partial document) and the
\* order o in which its keys were inserted, which is the order of the writes
NoFileDicts == [d |-> EmptyMap, o |-> <<>>]

\* file_dicts.setdefault(file, {})
FileDict(file_dicts, file) ==
    IF file \in DOMAIN file_dicts.d THEN file_dicts
    ELSE [d |-> file_dicts.d @@ (file :> EmptyMap),
          o |-> Append(file_dicts.o, file)]

\* an append that does not look at the names already there
AppendAlways(records, record) == Append(records, record)

\* "if record name not in the names already there: append"
AppendUnlessNamed(records, record) ==
    IF record.name \in {records[i].name : i \in DOMAIN records}
    THEN records
    ELSE Append(records, record)

\* TargetFile without the lookup in the index
TargetFileAlwaysRoot(index, key) == RootPath

\* TargetFile with an include file as the default
TargetFileDefaultingToInclude(index, key) == Get(index, key, "a.yml")

\* self._plugin_file_map.get(key, str(self._meltano_file_path))
TargetFile(index, key) == Get(index, key, RootPath)

_add_plugin(file_dicts, file, plugin_type, plugin) ==
    LET fd == FileDict(file_dicts, file)
        file_dict == SetDefault(fd.d[file], "plugins", M(EmptyMap))
        plugins_dict == SetDefault(file_dict["plugins"].v, plugin_type,
                                   L(<<>>))
        plugins == plugins_dict[plugin_type].v
    IN  [fd EXCEPT !.d[file] =
            Put(file_dict, "plugins",
                M(Put(plugins_dict, plugin_type,
                      L(AppendUnlessNamed(plugins, plugin)))))]

_add_schedule(file_dicts, file, schedule) ==
    LET fd == FileDict(file_dicts, file)
        file_dict == SetDefault(fd.d[file], "schedules", L(<<>>))
        schedules == file_dict["schedules"].v
    IN  [fd EXCEPT !.d[file] =
            Put(file_dict, "schedules",
                L(AppendUnlessNamed(schedules, schedule)))]

_add_environment(file_dicts, file, environment) ==
    LET fd == FileDict(file_dicts, file)
        file_dict == SetDefault(fd.d[file], "environments", L(<<>>))
        environments == file_dict["environments"].v
    IN  [fd EXCEPT !.d[file] =
            Put(file_dict, "environments",
                L(AppendUnlessNamed(environments, environment)))]

RECURSIVE AddPluginsOfType(_, _, _, _, _)
AddPluginsOfType(file_dicts, index, plugin_type, plugins, i) ==
    IF i > Len(plugins) THEN file_dicts
    ELSE LET file == TargetFile(index, PluginKey(plugin_type, plugins[i]))
         IN  AddPluginsOfType(
                 _add_plugin(file_dicts, file, plugin_type, plugins[i]),
                 index, plugin_type, plugins, i + 1)

RECURSIVE AddPluginTypes(_, _, _, _)
AddPluginTypes(file_dicts, index, all_plugins, i) ==
    IF i > Len(PluginTypes) THEN file_dicts
    ELSE LET plugin_type == PluginTypes[i]
         IN  IF plugin_type \notin DOMAIN all_plugins
             THEN AddPluginTypes(file_dicts, index, all_plugins, i + 1)
             ELSE AddPluginTypes(
                      AddPluginsOfType(file_dicts, index, plugin_type,
                                       all_plugins[plugin_type].v, 1),
                      index, all_plugins, i + 1)

_add_plugins(file_dicts, index, all_plugins) ==
    AddPluginTypes(file_dicts, index, all_plugins, 1)

RECURSIVE _add_schedules_from(_, _, _, _)
_add_schedules_from(file_dicts, index, schedules, i) ==
    IF i > Len(schedules) THEN file_dicts
    ELSE LET file == TargetFile(index, ScheduleKey(schedules[i]))
         IN  _add_schedules_from(
                 _add_schedule(file_dicts, file, schedules[i]),
                 index, schedules, i + 1)

_add_schedules(file_dicts, index, schedules) ==
    _add_schedules_from(file_dicts, index, schedules, 1)

RECURSIVE _add_environments_from(_, _, _, _)
_add_environments_from(file_dicts, index, environments, i) ==
    IF i > Len(environments) THEN file_dicts
    ELSE LET file == TargetFile(index, EnvironmentKey(environments[i]))
         IN  _add_environments_from(
                 _add_environment(file_dicts, file, environments[i]),
                 index, environments, i + 1)

_add_environments(file_dicts, index, environments) ==
    _add_environments_from(file_dicts, index, environments, 1)

\* the order in which the top-level keys of a config are visited
KeyOrder == <<"version", "include_paths", "plugins", "schedules",
              "environments">>

\* the file a key other than plugins, schedules and environments goes to
\* (a variant that sends them to an include file)
OtherKeyFileInclude(key) == "a.yml"

OtherKeyFile(key) == RootPath

\* one iteration of "for key, value in config.items()"
SplitKey(file_dicts, index, key, value) ==
    IF key = "plugins" THEN _add_plugins(file_dicts, index, value.v)
    ELSE IF key = "schedules" THEN _add_schedules(file_dicts, index, value.v)
    ELSE IF key = "environments"
    THEN _add_environments(file_dicts, index, value.v)
    ELSE LET file == OtherKeyFile(key)
             fd == FileDict(file_dicts, file)
         IN  [fd EXCEPT !.d[file] = Put(fd.d[file], key, value)]

RECURSIVE SplitKeys(_, _, _, _)
SplitKeys(file_dicts, index, config, i) ==
    IF i > Len(KeyOrder) THEN file_dicts
    ELSE IF KeyOrder[i] \notin DOMAIN config
    THEN SplitKeys(file_dicts, index, config, i + 1)
    ELSE SplitKeys(SplitKey(file_dicts, index, KeyOrder[i],
                            config[KeyOrder[i]]),
                   index, config, i + 1)

\* ok: the groups; not ok: file_dicts[str(self._meltano_file_path)] raised
\* KeyError because nothing was assigned to the root file
_split_config_dict(index, config) ==
    LET file_dicts == SplitKeys(NoFileDicts, index, config, 1)
    IN  [ok |-> RootPath \in DOMAIN file_dicts.d, file_dicts |-> file_dicts]

(***************************************************************************)
(* Writing files                                                           *)
(***************************************************************************)
\* A run of writes is the record w: the files, the log of the writes done
\* (<<path, loop>> in execution order, loop "group" for update()'s first
\* loop and "blank" for its second), the number of writes after which
\* atomic_write raises (NoFailure: never), and the path whose write raised.
NoFailure == -1

StartWrites(disk, left) ==
    [disk |-> disk, log |-> <<>>, left |-> left, failed |-> ""]

\* a _write_file whose failure is swallowed: the file is skipped
_write_file_swallowing(w, file_path, contents, loop) ==
    IF w.left = 0 THEN [w EXCEPT !.left = NoFailure]
    ELSE [w EXCEPT !.disk[file_path] = contents,
                   !.log = Append(w.log, <<file_path, loop>>),
                   !.left = w.left - 1]

\* _write_file: atomic_write replaces the file on success and leaves it as
\* it was when it raises
_write_file(w, file_path, contents, loop) ==
    IF w.left = 0 THEN [w EXCEPT !.failed = file_path]
    ELSE [w EXCEPT !.disk[file_path] = contents,
                   !.log = Append(w.log, <<file_path, loop>>),
                   !.left = w.left - 1]

\* one of update()'s loops over (path, contents) pairs; an exception of
\* _write_file ends it
RECURSIVE WriteAll(_, _, _, _, _)
WriteAll(w, paths, contents, loop, i) ==
    IF i > Len(paths) \/ w.failed # "" THEN w
    ELSE WriteAll(_write_file(w, paths[i], contents[paths[i]], loop),
                  paths, contents, loop, i + 1)

\* the paths a log has under a loop, in order
LogPaths(log, loop) ==
    LET entries == SelectSeq(log, LAMBDA e : e[2] = loop)
    IN  [i \in DOMAIN entries |-> entries[i][1]]

(***************************************************************************)
(* The store: load() and update()                                          *)
(***************************************************************************)
\* a reset_cache that keeps the cached document
reset_cache_keeping(cached) == cached

\* reset_cache
reset_cache(cached) == None

\* the meltano property: the cached root document, read from disk on a miss
meltano(cached, disk) == IF cached = None THEN disk[RootPath] ELSE cached

\* the include_paths property; c is the cache after the property was read
include_paths(cached, disk) ==
    LET c == meltano(cached, disk)
    IN  [c |-> c, r |-> _resolve_include_paths(IncludePatterns(c))]

\* an index reset that keeps the entries of the load before
ResetIndexKeeping(index) == index

\* self._plugin_file_map = {}
ResetIndex(index) == EmptyMap

\* what the duplicate failure raises: Exception("Duplicate plugin name
\* found."), an exception with the message as its only argument
DuplicateException ==
    [type |-> "Exception", args |-> <<"Duplicate plugin name found.">>]

NoException == [type |-> "", args |-> <<>>]

\* ":".join(key)
RECURSIVE KeyPathString(_)
KeyPathString(key) ==
    IF Len(key) = 1 THEN key[1]
    ELSE key[1] \o ":" \o KeyPathString(Tail(key))

\* what _add_to_index hands to logger.critical before it raises: the key
\* and the file that declared it first
CriticalLog(key, existing_key_file_path) ==
    <<KeyPathString(key), existing_key_file_path>>

\* _load_included_files: the index is emptied, then filled file by file
_load_included_files(cached, index, disk) ==
    LET fresh == ResetIndex(index)
        ip == include_paths(cached, disk)
    IN  IF ~ip.r.ok
        THEN [res |-> "InvalidIncludePath", c |-> ip.c, index |-> fresh,
              paths |-> <<>>, contents |-> <<>>, exc |-> NoException,
              logged |-> <<>>]
        ELSE LET x == IndexFiles(fresh, ip.r.paths, disk, 1)
             IN  [res |-> IF x.ok THEN "ok" ELSE "DuplicateEntity",
                  c |-> ip.c, index |-> x.index, paths |-> ip.r.paths,
                  contents |-> [i \in DOMAIN ip.r.paths |->
                                   disk[ip.r.paths[i]]],
                  exc |-> IF x.ok THEN NoException ELSE DuplicateException,
                  logged |-> IF x.ok THEN <<>>
                             ELSE CriticalLog(x.key, x.owner)]

\* load(): res is "ok" with the composite in ret, or the name of the failure
load(cached, index, disk) ==
    LET lf == _load_included_files(reset_cache(cached), index, disk)
        merged == deep_merge(meltano(lf.c, disk), lf.contents)
        res == IF lf.res # "ok" THEN lf.res
               ELSE IF Raised(merged) THEN "MergeError" ELSE "ok"
    IN  [res |-> res, c |-> lf.c, index |-> lf.index, paths |-> lf.paths,
         ret |-> IF res = "ok" THEN merged ELSE None, exc |-> lf.exc,
         logged |-> lf.logged]

\* unused_files without the test against the groups
UnusedFilesUnfiltered(paths, file_dicts) == paths

\* the files update() blanks, given the resolved include list
UnusedFiles(paths, file_dicts) ==
    SelectSeq(paths, LAMBDA fl : fl \notin DOMAIN file_dicts.d)

\* an update() that returns the group it wrote to the root file
ReturnedRootGroup(meltano_config, file_dicts) == file_dicts.d[RootPath]

\* return meltano_config
Returned(meltano_config, file_dicts) == meltano_config

\* update(meltano_config): res is "ok" with the config in ret, or the name
\* of the failure; disk and c are the files and the cache it leaves behind.
\* left is the number of writes after which a write fails (NoFailure: none)
update(cached, index, disk, meltano_config, left) ==
    LET s == _split_config_dict(index, meltano_config)
        fd == s.file_dicts
        w1 == WriteAll(StartWrites(disk, left), fd.o, fd.d, "group", 1)
        ip == include_paths(cached, w1.disk)
        unused_files == UnusedFiles(ip.r.paths, fd)
        w2 == WriteAll(w1, unused_files,
                       [fl \in Range(unused_files) |-> BLANK_SUBFILE],
                       "blank", 1)
    IN  IF ~s.ok
        THEN [res |-> "KeyError", disk |-> disk, c |-> cached,
              log |-> <<>>, failed |-> "", ret |-> None]
        ELSE IF w1.failed # ""
        THEN [res |-> "WriteFailure", disk |-> w1.disk, c |-> cached,
              log |-> w1.log, failed |-> w1.failed, ret |-> None]
        ELSE IF ~ip.r.ok
        THEN [res |-> "InvalidIncludePath", disk |-> w1.disk, c |-> ip.c,
              log |-> w1.log, failed |-> "", ret |-> None]
        ELSE IF w2.failed # ""
        THEN [res |-> "WriteFailure", disk |-> w2.disk, c |-> ip.c,
              log |-> w2.log, failed |-> w2.failed, ret |-> None]
        ELSE [res |-> "ok", disk |-> w2.disk, c |-> reset_cache(ip.c),
              log |-> w2.log, failed |-> "",
              ret |-> Returned(meltano_config, fd)]

(***************************************************************************)
(* Project states and configs the calls are made on                        *)
(***************************************************************************)
Entity(name, value) == [name |-> name, v |-> value]

Extractors(plugins) == M("extractors" :> L(plugins))
Loaders(plugins) == M("loaders" :> L(plugins))

\* a document from optional parts; an absent part is None
Doc(version, includes, plugins, schedules, environments) ==
    LET part(key, value) == IF value = None THEN EmptyMap ELSE key :> value
    IN  part("version", version) @@ part("include_paths", includes)
            @@ part("plugins", plugins) @@ part("schedules", schedules)
            @@ part("environments", environments)

RootIncludeLists ==
    {None, L(<<"a.yml">>), L(<<"b.yml", "*.yml">>),
     L(<<"*.yml", "meltano.yml">>), L(<<"a.yml", "s*">>)}

\* the plugins and the schedules the root file declares itself
RootEntityParts ==
    {<<None, None>>,
     <<None, L(<<>>)>>,
     <<Extractors(<<Entity("n1", 1)>>), L(<<Entity("n1", 1)>>)>>,
     <<None, L(<<Entity("n1", 1), Entity("n1", 3)>>)>>}

RootDocs ==
    {Doc(V(1), includes, parts[1], parts[2], None) :
        includes \in RootIncludeLists, parts \in RootEntityParts}

IncludeDocs ==
    {BLANK_SUBFILE,
     Doc(None, None, None, L(<<Entity("n1", 2)>>), None),
     Doc(None, None, None, L(<<Entity("n2", 1)>>), None),
     Doc(None, None, None, L(<<Entity("n2", 1), Entity("n2", 2)>>), None),
     Doc(None, None, Extractors(<<Entity("n1", 2)>>), L(<<>>), None),
     Doc(None, None, Loaders(<<Entity("n1", 1)>>), None,
         L(<<Entity("n1", 1)>>)),
     Doc(V(2), L(<<"b.yml">>), None, None, None),
     Doc(L(<<2>>), None, None, None, None)}

SecondIncludeDocs ==
    {BLANK_SUBFILE,
     Doc(None, None, None, L(<<Entity("n1", 2)>>), None),
     Doc(None, None, None, L(<<Entity("n2", 1)>>), None),
     Doc(None, None, Extractors(<<Entity("n1", 2)>>), L(<<>>), None)}

ProjectStates ==
    {[fl \in RegularFiles |->
         IF fl = RootPath THEN root ELSE IF fl = "a.yml" THEN a ELSE b] :
        root \in RootDocs, a \in IncludeDocs, b \in SecondIncludeDocs}

\* the config with every record of the given key taken out
Without(config, key) ==
    LET keep(records, MakeKey(_)) ==
            SelectSeq(records, LAMBDA rec : MakeKey(rec) # key)
        drop(k) ==
            IF k = "schedules" THEN L(keep(config[k].v, ScheduleKey))
            ELSE IF k = "environments"
            THEN L(keep(config[k].v, EnvironmentKey))
            ELSE IF k = "plugins"
            THEN M([plugin_type \in DOMAIN config[k].v |->
                      L(keep(config[k].v[plugin_type].v,
                             LAMBDA rec : PluginKey(plugin_type, rec)))])
            ELSE config[k]
    IN  [k \in DOMAIN config |-> drop(k)]

\* the config with one more schedule at the end
WithSchedule(config, schedule) ==
    Put(config, "schedules", L(Append(SchedulesOf(config), schedule)))

\* the config with one more extractor at the end
WithExtractor(config, plugin) ==
    Put(config, "plugins",
        M(Put(PluginsOf(config), "extractors",
              L(Append(PluginsOfType(config, "extractors"), plugin)))))

\* the config with other include patterns
WithIncludes(config, includes) == Put(config, "include_paths", L(includes))

\* the config without its non-entity keys
EntitiesOnly(config) ==
    [k \in DOMAIN config \cap {"plugins", "schedules", "environments"} |->
        config[k]]

NewIncludeLists == {<<>>, <<"b.yml">>, <<"a.yml", "*">>}

\* what a caller may pass to update(): the composite it got from the last
\* successful load(), or a config of its own, as it is or edited
Configs ==
    {Doc(V(1), None, None, L(<<Entity("n1", 1)>>), None)}
        \cup IF ~loaded.ok THEN {}
             ELSE LET c == loaded.ret
                  IN  {c, WithSchedule(c, Entity("n1", 4)),
                       WithExtractor(c, Entity("n2", 1)), EntitiesOnly(c)}
                          \cup {Without(c, key) : key \in EntityKeys(c)}
                          \cup {WithIncludes(c, includes) :
                                    includes \in NewIncludeLists}

(***************************************************************************)
(* The add service (src/src/meltano/core/project_add_service.py)           *)
(***************************************************************************)
\* list(PluginType), evaluated once, when add_related is defined: the list
\* every call without a plugin_types argument shares (three members stand
\* for the enumeration)
PluginType == <<"extractors", "loaders", "transforms">>

Plugin(type, name, namespace) ==
    [type |-> type, name |-> name, namespace |-> namespace]

\* discovery_service.plugins(), in the order it yields them
DiscoveredPlugins ==
    <<Plugin("extractors", "tap-a", "ns1"),
      Plugin("extractors", "tap-b", "ns1"),
      Plugin("loaders", "target-a", "ns1"),
      Plugin("transforms", "dbt-a", "ns1"),
      Plugin("extractors", "tap-c", "ns2"),
      Plugin("loaders", "target-c", "ns2")>>

\* plugin.as_installed(): the install of a plugin keeps its type, name and
\* namespace
as_installed(plugin) == Plugin(plugin.type, plugin.name, plugin.namespace)

\* config_service.add_to_file(installed): PluginAlreadyAddedException when
\* the project already has the plugin
add_to_file(plugins, plugin) ==
    IF plugin \in plugins
    THEN [res |-> "PluginAlreadyAddedException", plugins |-> plugins,
          ret |-> None]
    ELSE [res |-> "ok", plugins |-> plugins \cup {plugin}, ret |-> plugin]

\* add(plugin_type, plugin_name)
add(plugins, plugin_type, plugin_name) ==
    LET found == SelectSeq(DiscoveredPlugins,
                           LAMBDA p : p.type = plugin_type
                                          /\ p.name = plugin_name)
    IN  IF found = <<>>
        THEN [res |-> "PluginNotFound", plugins |-> plugins, ret |-> None]
        ELSE add_to_file(plugins, as_installed(found[1]))

\* the try/except around plugin_types.remove(target_plugin.type): the list
\* object itself loses the first occurrence of the type, if it has one
RemoveType(plugin_types, type) == ListRemove(plugin_types, type)

\* the list a call without a plugin_types argument works on: the one list
\* the default argument holds, not a copy of it
DefaultArgument(shared) == shared

\* the comprehension that selects the related plugins
RelatedPlugins(target_plugin, plugin_types) ==
    SelectSeq(DiscoveredPlugins,
              LAMBDA plugin : /\ plugin.namespace = target_plugin.namespace
                              /\ plugin.type \in Range(plugin_types))

\* the loop over the related plugins; a plugin that is already added is
\* passed over
RECURSIVE AddAll(_, _, _, _)
AddAll(plugins, related_plugins, added_plugins, i) ==
    IF i > Len(related_plugins)
    THEN [plugins |-> plugins, added_plugins |-> added_plugins]
    ELSE LET r == add(plugins, related_plugins[i].type,
                      related_plugins[i].name)
         IN  AddAll(r.plugins, related_plugins,
                    IF r.res = "ok" THEN Append(added_plugins, r.ret)
                    ELSE added_plugins,
                    i + 1)

\* add_related(target_plugin, plugin_types): plugin_types is the list the
\* call leaves behind in the object it was given
add_related(plugins, target_plugin, plugin_types) ==
    LET types == RemoveType(plugin_types, target_plugin.type)
        related_plugins == RelatedPlugins(target_plugin, types)
        r == AddAll(plugins, related_plugins, <<>>, 1)
    IN  [plugin_types |-> types, related_plugins |-> related_plugins,
         plugins |-> r.plugins, ret |-> r.added_plugins]

\* the plugin_types lists a caller passes explicitly
GivenPluginTypes == {<<"loaders">>, <<"extractors", "loaders">>}

\* related is the last call made on the add service: whether plugin_types
\* was passed (given), the list the call worked on after the removal
\* (plugin_types), the plugins of the project before the call (before) and
\* what the call returned (ret)
NoRelated == [op |-> "none", res |-> "ok", target |-> None, given |-> FALSE,
              plugin_types |-> <<>>, before |-> {}, ret |-> <<>>]

(***************************************************************************)
(* Specification of the store                                              *)
(***************************************************************************)
\* call is the last call made on the store: its arguments (arg, and left,
\* the number of writes after which a write fails), the cache it started
\* with (c0), its outcome (res, ret, exc) and the writes it did
NoCall == [op |-> "none", res |-> "ok", arg |-> None, ret |-> None,
           written |-> <<>>, blanked |-> <<>>, log |-> <<>>, failed |-> "",
           left |-> NoFailure, c0 |-> None, exc |-> NoException,
           logged |-> <<>>]

\* before is the index the load started with
NotLoaded == [ok |-> FALSE, paths |-> <<>>, docs |-> EmptyMap, ret |-> None,
              before |-> EmptyMap]

Init ==
    /\ files \in ProjectStates
    /\ _meltano = None
    /\ _plugin_file_map = EmptyMap
    /\ call = NoCall
    /\ pre = files
    /\ loaded = NotLoaded
    /\ roundTrip = None
    /\ nops = 0
    /\ patterns = <<>>
    /\ resolved = None
    /\ default_plugin_types = PluginType
    /\ installed = {}
    /\ related = NoRelated

Load ==
    /\ nops < MaxOps
    /\ \E out \in {load(_meltano, _plugin_file_map, files)} :
           /\ _meltano' = out.c
           /\ _plugin_file_map' = out.index
           /\ call' = [NoCall EXCEPT !.op = "load", !.res = out.res,
                                     !.ret = out.ret, !.c0 = _meltano,
                                     !.exc = out.exc,
                                     !.logged = out.logged]
           /\ loaded' = [ok |-> out.res = "ok", paths |-> out.paths,
                         docs |-> [fl \in Range(out.paths) |-> files[fl]],
                         ret |-> out.ret, before |-> _plugin_file_map]
    /\ roundTrip' = IF call.op = "update" THEN roundTrip ELSE None
    /\ pre' = files
    /\ nops' = nops + 1
    /\ UNCHANGED <<files, patterns, resolved, addVars>>

\* the record of an update() call that was given meltano_config and left
UpdateCall(out, meltano_config, left) ==
    [op |-> "update", res |-> out.res, arg |-> meltano_config,
     ret |-> out.ret, written |-> LogPaths(out.log, "group"),
     blanked |-> LogPaths(out.log, "blank"), log |-> out.log,
     failed |-> out.failed, left |-> left, c0 |-> _meltano,
     exc |-> NoException, logged |-> <<>>]

Update ==
    /\ nops < MaxOps
    /\ \E meltano_config \in Configs :
          \E out \in {update(_meltano, _plugin_file_map, files,
                             meltano_config, NoFailure)} :
              /\ files' = out.disk
              /\ _meltano' = out.c
              /\ call' = UpdateCall(out, meltano_config, NoFailure)
              /\ roundTrip' =
                     IF /\ out.res = "ok"
                        /\ call.op = "load" /\ call.res = "ok"
                        /\ meltano_config = call.ret
                     THEN meltano_config ELSE None
    /\ pre' = files
    /\ nops' = nops + 1
    /\ UNCHANGED <<_plugin_file_map, loaded, patterns, resolved, addVars>>

Next == Load \/ Update

Spec == Init /\ [][Next]_vars

(***************************************************************************)
(* Specification of the store with failing writes                          *)
(***************************************************************************)
\* the numbers of writes an update() may complete before a write fails
FailurePoints == 0..(Cardinality(RegularFiles) - 1)

\* update() in which atomic_write raises at a write the call gets to
UpdateWriteFailure ==
    /\ nops < MaxOps
    /\ \E meltano_config \in Configs :
          \E full \in {update(_meltano, _plugin_file_map, files,
                              meltano_config, NoFailure)} :
            \E left \in {n \in FailurePoints : n < Len(full.log)} :
              \E out \in {update(_meltano, _plugin_file_map, files,
                                 meltano_config, left)} :
              /\ files' = out.disk
              /\ _meltano' = out.c
              /\ call' = UpdateCall(out, meltano_config, left)
    /\ roundTrip' = None
    /\ pre' = files
    /\ nops' = nops + 1
    /\ UNCHANGED <<_plugin_file_map, loaded, patterns, resolved, addVars>>

NextFaults == Load \/ Update \/ UpdateWriteFailure

\* the projects the failing writes are tried on: no include file, or both
\* include files, so that an update has from one to three writes to do
FaultProjectStates ==
    {st \in ProjectStates :
        st[RootPath] \in {Doc(V(1), includes, parts[1], parts[2], None) :
                             includes \in {None, L(<<"b.yml", "*.yml">>)},
                             parts \in {<<None, None>>,
                                        <<Extractors(<<Entity("n1", 1)>>),
                                          L(<<Entity("n1", 1)>>)>>}}}

InitFaults ==
    /\ files \in FaultProjectStates
    /\ _meltano = None
    /\ _plugin_file_map = EmptyMap
    /\ call = NoCall
    /\ pre = files
    /\ loaded = NotLoaded
    /\ roundTrip = None
    /\ nops = 0
    /\ patterns = <<>>
    /\ resolved = None
    /\ default_plugin_types = PluginType
    /\ installed = {}
    /\ related = NoRelated

SpecFaults == InitFaults /\ [][NextFaults]_vars

(***************************************************************************)
(* Specification of the store with another process writing the root file   *)
(***************************************************************************)
\* the documents the other process leaves in the root file
ExternalRootDocs ==
    {Doc(V(3), None, None, None, None),
     Doc(V(3), L(<<"b.yml">>), None, L(<<Entity("n3", 1)>>), None)}

ExternalRootChange ==
    /\ nops < MaxOps
    /\ \E d \in ExternalRootDocs \ {files[RootPath]} :
           files' = [files EXCEPT ![RootPath] = d]
    /\ call' = [NoCall EXCEPT !.op = "external"]
    /\ roundTrip' = None
    /\ pre' = files
    /\ nops' = nops + 1
    /\ UNCHANGED <<_meltano, _plugin_file_map, loaded, patterns, resolved,
                   addVars>>

NextExternal == Load \/ Update \/ ExternalRootChange

SpecExternal == Init /\ [][NextExternal]_vars

(***************************************************************************)
(* Specification of the add service                                        *)
(***************************************************************************)
\* the installs a caller may pass as target_plugin
Targets == {as_installed(DiscoveredPlugins[i]) : i \in DOMAIN DiscoveredPlugins}

InitAdd ==
    /\ files = [fl \in RegularFiles |-> BLANK_SUBFILE]
    /\ _meltano = None
    /\ _plugin_file_map = EmptyMap
    /\ call = NoCall
    /\ pre = files
    /\ loaded = NotLoaded
    /\ roundTrip = None
    /\ nops = 0
    /\ patterns = <<>>
    /\ resolved = None
    /\ default_plugin_types = PluginType
    /\ installed = {}
    /\ related = NoRelated

Add ==
    /\ \E plugin \in Targets :
          \E out \in {add(installed, plugin.type, plugin.name)} :
              /\ installed' = out.plugins
              /\ related' = [NoRelated EXCEPT !.op = "add", !.res = out.res,
                                             !.target = plugin,
                                             !.before = installed,
                                             !.ret = IF out.res = "ok"
                                                     THEN <<out.ret>>
                                                     ELSE <<>>]
    /\ UNCHANGED <<storeVars, patterns, resolved, default_plugin_types>>

\* add_related(target_plugin), without a plugin_types argument
AddRelated ==
    /\ \E target_plugin \in Targets :
          \E out \in {add_related(installed, target_plugin,
                                  DefaultArgument(default_plugin_types))} :
              /\ default_plugin_types' = out.plugin_types
              /\ installed' = out.plugins
              /\ related' = [op |-> "add_related", res |-> "ok",
                             target |-> target_plugin, given |-> FALSE,
                             plugin_types |-> out.plugin_types,
                             before |-> installed, ret |-> out.ret]
    /\ UNCHANGED <<storeVars, patterns, resolved>>

\* add_related(target_plugin, plugin_types), with a list of the caller's
AddRelatedGiven ==
    /\ \E target_plugin \in Targets, plugin_types \in GivenPluginTypes :
          \E out \in {add_related(installed, target_plugin, plugin_types)} :
              /\ installed' = out.plugins
              /\ related' = [op |-> "add_related", res |-> "ok",
                             target |-> target_plugin, given |-> TRUE,
                             plugin_types |-> out.plugin_types,
                             before |-> installed, ret |-> out.ret]
    /\ UNCHANGED <<storeVars, patterns, resolved, default_plugin_types>>

NextAdd == Add \/ AddRelated \/ AddRelatedGiven

SpecAdd == InitAdd /\ [][NextAdd]_vars

(***************************************************************************)
(* Specification of the include resolver alone                             *)
(***************************************************************************)
RECURSIVE SeqsUpTo(_, _)
SeqsUpTo(S, n) ==
    IF n = 0 THEN {<<>>}
    ELSE LET shorter == SeqsUpTo(S, n - 1)
         IN  shorter \cup {Append(s, x) : s \in shorter, x \in S}

InitResolve ==
    /\ files = [fl \in RegularFiles |-> BLANK_SUBFILE]
    /\ _meltano = None
    /\ _plugin_file_map = EmptyMap
    /\ call = NoCall
    /\ pre = files
    /\ loaded = NotLoaded
    /\ roundTrip = None
    /\ nops = 0
    /\ patterns \in SeqsUpTo(Patterns, MaxPatterns)
    /\ resolved = None
    /\ default_plugin_types = PluginType
    /\ installed = {}
    /\ related = NoRelated

Resolve ==
    /\ resolved = None
    /\ resolved' = _resolve_include_paths(patterns)
    /\ UNCHANGED <<storeVars, patterns, addVars>>

NextResolve == Resolve

SpecResolve == InitResolve /\ [][NextResolve]_vars

(***************************************************************************)
(* Properties of the include resolver                                      *)
(***************************************************************************)
\* every match of every pattern, in the order the patterns yield them
RECURSIVE AllMatches(_)
AllMatches(pats) ==
    IF pats = <<>> THEN <<>>
    ELSE AllMatches(SubSeq(pats, 1, Len(pats) - 1)) \o Glob(pats[Len(pats)])

FirstMatch(path, matches) ==
    CHOOSE i \in DOMAIN matches :
        /\ matches[i] = path
        /\ \A j \in 1..(i - 1) : matches[j] # path

PatternsMatching(path) ==
    {i \in DOMAIN patterns : path \in Range(Glob(patterns[i]))}

\* C8 (root exclusion): whatever the patterns are and however many of them
\* match the root file, a list returned by the include resolver never
\* contains the root file path.
RootExclusion ==
    (resolved # None /\ resolved.ok) => RootPath \notin Range(resolved.paths)

\* a list was resolved from patterns of which at least two match the root
RootExclusionWitness ==
    /\ resolved # None /\ resolved.ok
    /\ Cardinality(PatternsMatching(RootPath)) >= 2
    /\ resolved.paths # <<>>

\* C9 (dedup across patterns): the resolved list holds each matched path
\* other than the root exactly once, and the paths are in the order of their
\* first match over the patterns taken in the given order.
DedupAcrossPatterns ==
    (resolved # None /\ resolved.ok) =>
        LET matches == AllMatches(patterns)
            paths == resolved.paths
        IN  /\ Range(paths) = Range(matches) \ {RootPath}
            /\ \A i, j \in DOMAIN paths :
                   i < j => /\ paths[i] # paths[j]
                            /\ FirstMatch(paths[i], matches)
                                   < FirstMatch(paths[j], matches)

\* a list of two paths was resolved, one of them matched by two patterns
DedupAcrossPatternsWitness ==
    /\ resolved # None /\ resolved.ok
    /\ Len(resolved.paths) = 2
    /\ \E fl \in IncludeFiles : Cardinality(PatternsMatching(fl)) >= 2

(***************************************************************************)
(* Properties of load() and update()                                       *)
(***************************************************************************)
\* some pattern matches a path that is not an existing regular file
MatchesInvalidPath(pats) ==
    \E i \in DOMAIN pats :
        \E j \in DOMAIN Glob(pats[i]) : Glob(pats[i])[j] \notin RegularFiles

\* C10 (invalid include path): when a pattern of the root file matches a
\* path that is not an existing regular file, load() fails with
\* InvalidIncludePath, resolves no list (not even the paths matched before
\* the invalid one), returns no composite and leaves every file as it was.
InvalidIncludeAborts ==
    (call.op = "load" /\ MatchesInvalidPath(IncludePatterns(pre[RootPath])))
        => /\ call.res = "InvalidIncludePath"
           /\ call.ret = None
           /\ loaded.paths = <<>> /\ ~loaded.ok
           /\ files = pre

\* load() failed on a directory that was matched after a valid include file
InvalidIncludeAbortsWitness ==
    /\ call.op = "load" /\ call.res = "InvalidIncludePath"
    /\ IncludePatterns(pre[RootPath]) = <<"a.yml", "s*">>

\* the documents a load() reads, the root first, then the include files in
\* resolution order, as they were on disk when the call started
DocsRead == <<pre[RootPath]>> \o [i \in DOMAIN loaded.paths |->
                                    pre[loaded.paths[i]]]

LoadReturned == call.op = "load" /\ call.res = "ok"

\* the items a document declares under a top-level key
ItemsOf(d, key) == IF key \in DOMAIN d THEN d[key].v ELSE <<>>

RECURSIVE ItemsOfAll(_, _)
ItemsOfAll(docs, key) ==
    IF docs = <<>> THEN <<>>
    ELSE ItemsOf(Head(docs), key) \o ItemsOfAll(Tail(docs), key)

RECURSIVE PluginsOfAll(_, _)
PluginsOfAll(docs, plugin_type) ==
    IF docs = <<>> THEN <<>>
    ELSE PluginsOfType(Head(docs), plugin_type)
             \o PluginsOfAll(Tail(docs), plugin_type)

\* the key is a sequence in every document that declares it, and one does
IsSequenceKey(docs, key) ==
    /\ \E i \in DOMAIN docs : key \in DOMAIN docs[i]
    /\ \A i \in DOMAIN docs : key \in DOMAIN docs[i] => docs[i][key].t = "list"

IsPluginType(docs, plugin_type) ==
    \E i \in DOMAIN docs : plugin_type \in DOMAIN PluginsOf(docs[i])

\* C5 (sequence accumulation): in the composite load() returns, every
\* sequence-valued key, top-level or plugins.<type>, holds the items of the
\* root file followed by the items of each include file in resolution
\* order, none dropped and none overridden.
SequenceAccumulation ==
    LoadReturned =>
        /\ \A key \in {"version", "include_paths", "schedules",
                       "environments"} :
               IsSequenceKey(DocsRead, key) =>
                   /\ key \in DOMAIN call.ret
                   /\ call.ret[key] = L(ItemsOfAll(DocsRead, key))
        /\ \A plugin_type \in Range(PluginTypes) :
               IsPluginType(DocsRead, plugin_type) =>
                   /\ plugin_type \in DOMAIN PluginsOf(call.ret)
                   /\ PluginsOf(call.ret)[plugin_type]
                          = L(PluginsOfAll(DocsRead, plugin_type))

\* a composite of the root and two include files, with the schedules of the
\* root and of an include file and the extractors of the root and of the
\* other include file
SequenceAccumulationWitness ==
    /\ LoadReturned
    /\ Len(loaded.paths) = 2
    /\ SchedulesOf(pre[RootPath]) # <<>>
    /\ \E fl \in Range(loaded.paths) : SchedulesOf(pre[fl]) # <<>>
    /\ Len(SchedulesOf(call.ret)) = 2
    /\ Len(PluginsOfType(call.ret, "extractors")) = 2

\* every declaration of an entity by an include file a load() resolved, as
\* <<key, declaring file>>, in the order the files and their keys are visited
RECURSIVE Declarations(_)
Declarations(paths) ==
    IF paths = <<>> THEN <<>>
    ELSE LET fl == paths[Len(paths)]
             keys == EntityKeySeq(pre[fl])
         IN  Declarations(SubSeq(paths, 1, Len(paths) - 1))
                 \o [i \in DOMAIN keys |-> <<keys[i], fl>>]

\* the positions of the declarations whose key was declared before
SecondDeclarations(decls) ==
    {j \in DOMAIN decls : \E i \in 1..(j - 1) : decls[i][1] = decls[j][1]}

Min(S) == CHOOSE x \in S : \A y \in S : x <= y

\* the load() resolved its include paths (it may still have failed after)
LoadResolved == call.op = "load" /\ call.res # "InvalidIncludePath"

\* C6 (duplicates between include files): when the include files a load()
\* resolved declare an entity key twice (two files, or one file twice), the
\* load fails at the second declaration: it returns no composite, and the
\* index holds the declarations made before it, each key still mapped to
\* the file that declared it first.
DuplicateBetweenIncludes ==
    LET decls == Declarations(loaded.paths)
        second == SecondDeclarations(decls)
    IN  (LoadResolved /\ second # {}) =>
            /\ call.res = "DuplicateEntity"
            /\ call.ret = None
            /\ DOMAIN _plugin_file_map
                   = {decls[i][1] : i \in 1..(Min(second) - 1)}
            /\ \A i \in 1..(Min(second) - 1) :
                   _plugin_file_map[decls[i][1]] = decls[i][2]

\* a load() failed on a key of the second include file that the first
\* include file had declared
DuplicateBetweenIncludesWitness ==
    /\ call.op = "load" /\ call.res = "DuplicateEntity"
    /\ Len(loaded.paths) = 2
    /\ \E key \in EntityKeys(pre[loaded.paths[2]]) :
           /\ key \in DOMAIN _plugin_file_map
           /\ _plugin_file_map[key] = loaded.paths[1]

\* C7 (duplicates against the root): when the root file and an include file
\* declare an entity with the same key, load() fails with a duplicate-entity
\* error instead of returning a composite.
DuplicateAgainstRoot ==
    (/\ LoadResolved
     /\ \E fl \in Range(loaded.paths) :
            EntityKeys(pre[RootPath]) \cap EntityKeys(pre[fl]) # {})
        => call.res = "DuplicateEntity" /\ call.ret = None

UpdateReturned == call.op = "update" /\ call.res = "ok"

\* every record of a document with its entity key, as <<key, record>>
RECURSIVE PluginRecordSeq(_, _)
PluginRecordSeq(d, i) ==
    IF i > Len(PluginTypes) THEN <<>>
    ELSE LET plugins == PluginsOfType(d, PluginTypes[i])
         IN  [j \in DOMAIN plugins |->
                 <<PluginKey(PluginTypes[i], plugins[j]), plugins[j]>>]
                 \o PluginRecordSeq(d, i + 1)

RecordSeq(d) ==
    PluginRecordSeq(d, 1)
        \o [j \in DOMAIN SchedulesOf(d) |->
               <<ScheduleKey(SchedulesOf(d)[j]), SchedulesOf(d)[j]>>]
        \o [j \in DOMAIN EnvironmentsOf(d) |->
               <<EnvironmentKey(EnvironmentsOf(d)[j]), EnvironmentsOf(d)[j]>>]

\* the records a document holds under an entity key, in order
RecordsOf(d, key) ==
    LET all == SelectSeq(RecordSeq(d), LAMBDA kr : kr[1] = key)
    IN  [j \in DOMAIN all |-> all[j][2]]

\* the document holds the entity once, as the first record the config has
\* for it
HoldsEntity(d, key, config) ==
    RecordsOf(d, key) = <<RecordsOf(config, key)[1]>>

\* C2 (origin preservation): after update() returns, every entity that the
\* most recent load() read from include file F and that the config passed
\* to update() contains is in F (as the first record the config has for its
\* key), and is neither in the root file nor in another include file of
\* that load.
OriginPreservation ==
    (UpdateReturned /\ loaded.ok) =>
        \A fl \in Range(loaded.paths) :
            \A key \in EntityKeys(loaded.docs[fl]) \cap EntityKeys(call.arg) :
                /\ HoldsEntity(files[fl], key, call.arg)
                /\ key \notin EntityKeys(files[RootPath])
                /\ \A other \in Range(loaded.paths) \ {fl} :
                       key \notin EntityKeys(files[other])

\* an edited config was written back with an entity of one of two include
\* files in it, next to entities of the root
OriginPreservationWitness ==
    /\ UpdateReturned /\ loaded.ok
    /\ Len(loaded.paths) = 2
    /\ call.arg # loaded.ret
    /\ EntityKeys(files[RootPath]) # {}
    /\ \E fl \in Range(loaded.paths) :
           /\ EntityKeys(loaded.docs[fl]) \cap EntityKeys(call.arg) # {}
           /\ files[fl] # pre[fl]

\* C3 (new-entity placement): after update() returns, every entity of the
\* config whose key is absent from the origin index is in the root file (as
\* the first record the config has for its key) and in no include file that
\* this update wrote.
NewEntityPlacement ==
    UpdateReturned =>
        \A key \in EntityKeys(call.arg) \ DOMAIN _plugin_file_map :
            /\ HoldsEntity(files[RootPath], key, call.arg)
            /\ \A fl \in IncludeFiles :
                   (fl \in Range(call.written) \/ files[fl] # pre[fl])
                       => key \notin EntityKeys(files[fl])

\* an update wrote an entity unknown to the index to the root and an entity
\* known to the index to its include file
NewEntityPlacementWitness ==
    /\ UpdateReturned
    /\ EntityKeys(call.arg) \ DOMAIN _plugin_file_map # {}
    /\ EntityKeys(call.arg) \cap DOMAIN _plugin_file_map # {}
    /\ \E fl \in IncludeFiles : fl \in Range(call.written)
    /\ \E key \in EntityKeys(call.arg) :
           key \notin EntityKeys(pre[RootPath])
               /\ key \in EntityKeys(files[RootPath])

\* C4 (blanking): after update() returns, every include path of the most
\* recent load() that received no entity in this update holds the blank
\* document, no file is gone, and an include file that received entities is
\* not blanked; for any sequence of calls.
Blanking ==
    UpdateReturned =>
        /\ DOMAIN files = DOMAIN pre
        /\ \A fl \in Range(loaded.paths) :
               IF fl \in Range(call.written)
               THEN fl \notin Range(call.blanked)
               ELSE files[fl] = BLANK_SUBFILE

\* C1 (round trip): when update() is given the composite the preceding
\* load() returned, the next load() returns an equal composite.
RoundTrip ==
    (call.op = "load" /\ roundTrip # None) =>
        call.res = "ok" /\ call.ret = roundTrip

\* C11 (index freshness): after every successful load() the index holds
\* exactly the entity keys declared in the include files that load resolved,
\* each mapped to the file that declares it; no entry of an earlier load
\* survives.
IndexFreshness ==
    LoadReturned =>
        /\ DOMAIN _plugin_file_map
               = UNION {EntityKeys(pre[fl]) : fl \in Range(loaded.paths)}
        /\ \A fl \in Range(loaded.paths) :
               \A key \in EntityKeys(pre[fl]) : _plugin_file_map[key] = fl

\* a load() succeeded that started with an index entry for an entity no
\* include file declares any more, and indexed other entities
IndexFreshnessWitness ==
    /\ LoadReturned
    /\ _plugin_file_map # EmptyMap
    /\ DOMAIN loaded.before \ DOMAIN _plugin_file_map # {}

\* the top-level keys of a document that name no entity collection
OtherKeys(d) == DOMAIN d \ {"plugins", "schedules", "environments"}

\* C12 (non-entity keys go to the root): after update() returns, every
\* top-level key of the config other than plugins, schedules and
\* environments is in the root file with the value the config gives it, and
\* no include file of the most recent load() holds such a key, also when
\* that load read the key from an include file.
OtherKeysInRoot ==
    UpdateReturned =>
        /\ \A key \in OtherKeys(call.arg) :
               /\ key \in DOMAIN files[RootPath]
               /\ files[RootPath][key] = call.arg[key]
        /\ \A fl \in Range(loaded.paths) : OtherKeys(files[fl]) = {}

\* the composite of a load() that read version and include_paths from an
\* include file was written back, and the root now holds those keys with
\* the values of the composite
OtherKeysInRootWitness ==
    /\ UpdateReturned /\ loaded.ok
    /\ call.arg = loaded.ret
    /\ \E fl \in Range(loaded.paths) :
           /\ OtherKeys(loaded.docs[fl]) = {"version", "include_paths"}
           /\ files[fl] # pre[fl]
    /\ files[RootPath]["version"] # pre[RootPath]["version"]

\* C16 (dedup on split): after update() returns, every file it wrote a
\* group to holds, for each entity key of that group, exactly one record:
\* the first one the config has for the key.
DedupOnSplit ==
    UpdateReturned =>
        \A fl \in Range(call.written) :
            \A key \in EntityKeys(files[fl]) :
                HoldsEntity(files[fl], key, call.arg)

\* an update wrote a config that has two different records under one key
DedupOnSplitWitness ==
    /\ UpdateReturned
    /\ \E key \in EntityKeys(call.arg) :
           /\ Len(RecordsOf(call.arg, key)) = 2
           /\ RecordsOf(call.arg, key)[1] # RecordsOf(call.arg, key)[2]
           /\ \E fl \in Range(call.written) : key \in EntityKeys(files[fl])

DuplicateReport ==
    (call.op = "load" /\ call.res = "DuplicateEntity") =>
        LET decls == Declarations(loaded.paths)
            j == Min(SecondDeclarations(decls))
            i == Min({k \in 1..(j - 1) : decls[k][1] = decls[j][1]})
        IN  {KeyPathString(decls[j][1]), decls[i][2], decls[j][2]}
                \subseteq Range(call.exc.args)

\* C18 (the index never names the root): every value of the index is an
\* include path the most recent load() resolved, never the root file; and
\* after update() returns, every entity the root file holds has a key that
\* is absent from the index.
IndexNeverRoot ==
    /\ \A key \in DOMAIN _plugin_file_map :
           /\ _plugin_file_map[key] # RootPath
           /\ _plugin_file_map[key] \in Range(loaded.paths)
    /\ UpdateReturned =>
           \A key \in EntityKeys(files[RootPath]) :
               key \notin DOMAIN _plugin_file_map

\* a load() resolved its include files from a pattern that also matches the
\* root, the root and an include file both declare entities, and an update
\* assigned entities to both
IndexNeverRootWitness ==
    /\ UpdateReturned /\ loaded.ok
    /\ \E i \in DOMAIN IncludePatterns(loaded.ret) :
           RootPath \in Range(Glob(IncludePatterns(loaded.ret)[i]))
    /\ _plugin_file_map # EmptyMap
    /\ EntityKeys(files[RootPath]) # {}
    /\ EntityKeys(call.arg) \cap DOMAIN _plugin_file_map # {}

\* C19 (one write per file): within one update() no file is written twice,
\* the files that receive a group and the files that are blanked are
\* disjoint, and every group is written before any file is blanked.
WriteOnce ==
    call.op = "update" =>
        /\ \A i, j \in DOMAIN call.log :
               i < j => /\ call.log[i][1] # call.log[j][1]
                        /\ ~(call.log[i][2] = "blank"
                                 /\ call.log[j][2] = "group")
        /\ Range(call.written) \cap Range(call.blanked) = {}

\* an update wrote two groups and blanked a third file
WriteOnceWitness ==
    /\ UpdateReturned
    /\ Len(call.written) = 2 /\ Len(call.blanked) = 1
    /\ Len(call.log) = 3

\* C13 (write failure): when a write fails during update(), the call ends
\* with the failure and returns nothing; the writes it did are the writes
\* the same call does without the failure, up to the failing one; those
\* files hold their new content (group or blank), and every other file, the
\* failing one included, holds what it held when the call started.
WriteFailureStops ==
    (call.op = "update" /\ call.left # NoFailure) =>
        LET full == update(call.c0, _plugin_file_map, pre, call.arg,
                           NoFailure)
            n == Len(call.log)
            done == {call.log[i][1] : i \in DOMAIN call.log}
        IN  /\ call.res = "WriteFailure" /\ call.ret = None
            /\ n = call.left /\ n < Len(full.log)
            /\ call.log = SubSeq(full.log, 1, n)
            /\ call.failed = full.log[n + 1][1]
            /\ \A fl \in RegularFiles :
                   files[fl] = IF fl \in done THEN full.disk[fl]
                               ELSE pre[fl]

\* an update failed at its second write, after it changed a file, with a
\* group file and a file to blank still unwritten
WriteFailureStopsWitness ==
    /\ call.op = "update" /\ call.res = "WriteFailure"
    /\ call.left = 1
    /\ files # pre
    /\ LET full == update(call.c0, _plugin_file_map, pre, call.arg,
                          NoFailure)
       IN  /\ Len(full.log) = 3
           /\ full.log[2][2] = "group" /\ full.log[3][2] = "blank"
           /\ full.disk[call.failed] # pre[call.failed]

\* C17 (cache invalidation): load() resolves its include set and builds its
\* composite from the root file as it is on disk when the call starts, and
\* leaves that document in the cache; after update() returns the cache is
\* empty, so that the next access reads the root file; whatever calls and
\* changes of the root file by another process came before.
CacheInvalidation ==
    /\ call.op = "load" =>
           LET r == _resolve_include_paths(IncludePatterns(pre[RootPath]))
           IN  /\ _meltano = pre[RootPath]
               /\ (call.res = "InvalidIncludePath") <=> ~r.ok
               /\ r.ok => loaded.paths = r.paths
               /\ LoadReturned =>
                      call.ret = deep_merge(pre[RootPath],
                                            [i \in DOMAIN r.paths |->
                                                pre[r.paths[i]]])
    /\ UpdateReturned =>
           /\ _meltano = None
           /\ meltano(_meltano, files) = files[RootPath]

\* a load() started with a cached root document that another process had
\* replaced on disk by one with another include set
CacheInvalidationWitness ==
    /\ LoadReturned
    /\ call.c0 # None /\ call.c0 # pre[RootPath]
    /\ pre[RootPath] \in ExternalRootDocs
    /\ loaded.paths # <<>>
    /\ _resolve_include_paths(IncludePatterns(call.c0)).paths # loaded.paths

(***************************************************************************)
(* Properties of the add service                                           *)
(***************************************************************************)
\* the discovered plugins related to a target: same namespace, other type
RelatedOf(target_plugin) ==
    {as_installed(DiscoveredPlugins[i]) : i \in
        {j \in DOMAIN DiscoveredPlugins :
            /\ DiscoveredPlugins[j].namespace = target_plugin.namespace
            /\ DiscoveredPlugins[j].type # target_plugin.type}}

\* C20 (default plugin types): every add_related call made without a
\* plugin_types argument considers every plugin type except the type of
\* its own target, whatever calls came before: it adds no plugin of the
\* target's type, and when it returns every related plugin of another type
\* is in the project, those that were not there before being the ones it
\* returns.
RelatedDefault ==
    (related.op = "add_related" /\ ~related.given) =>
        /\ Range(related.plugin_types)
               = Range(PluginType) \ {related.target.type}
        /\ \A i \in DOMAIN related.ret :
               related.ret[i].type # related.target.type
        /\ RelatedOf(related.target) \subseteq installed
        /\ Range(related.ret) = RelatedOf(related.target) \ related.before

====
